---------------------------- MODULE Spec2Model ----------------------------
(***************************************************************************)
(* Model of feedgenerator.py: the text/URI normalizer, the date            *)
(* formatters, the tag-URI generator, the SAX emission helper, the feed    *)
(* model (SyndicationFeed) and the three renderers (RSS 0.91, RSS 2.0,     *)
(* Atom 1.0).                                                              *)
(*                                                                         *)
(* Text is a sequence of characters, each character a one-symbol string;   *)
(* the non-ASCII letter e-acute is the symbol "U+00E9".  A Python value is *)
(* a record tagged by its type (field t).  A call that may raise returns   *)
(* [exc, v]: exc is the name of the exception, or NoExc with v the value.  *)
(***************************************************************************)
EXTENDS Integers, Sequences, FiniteSets, TLC

VARIABLES
    variant,   \* class of the feed object: "none" before construction
    feed,      \* self.feed
    items,     \* self.items
    ctor,      \* history: the arguments the constructor was called with
    calls,     \* history: the arguments of the add_item calls that returned
    last,      \* the last call made on the feed and what the caller saw
    fn         \* a call of one of the module-level functions

vars == <<variant, feed, items, ctor, calls, last, fn>>

-----------------------------------------------------------------------------
(* Python values *)

NoExc == "none"

None == [t |-> "none"]

PyStr(s) == [t |-> "str", s |-> s]

PyInt(n) == [t |-> "int", n |-> n]

PyBool(b) == [t |-> "bool", b |-> b]

PyFloat(n) == [t |-> "float", n |-> n]

PyDecimal(n) == [t |-> "Decimal", n |-> n]

\* datetime.datetime; aware: tzinfo is set, off: its UTC offset in minutes
DateTime(y, mo, d, h, mi, s, aware, off) ==
    [t |-> "datetime", year |-> y, month |-> mo, day |-> d, hour |-> h,
     minute |-> mi, second |-> s, aware |-> aware, off |-> off]

Ok(v) == [exc |-> NoExc, v |-> v]

Err(e) == [exc |-> e, v |-> None]

IsNone(x) == x.t = "none"

IsStr(x) == x.t = "str"

\* bool(x) for the values of the model: a str, bytes or list is false when
\* empty, a number when zero; a datetime or an Enclosure is always true
Truthy(x) ==
    CASE x.t = "none" -> FALSE
      [] x.t = "str" -> Len(x.s) > 0
      [] x.t = "bytes" -> Len(x.s) > 0
      [] x.t = "list" -> Len(x.xs) > 0
      [] x.t = "int" -> x.n # 0
      [] x.t = "bool" -> x.b
      [] x.t = "float" -> x.n # 0
      [] x.t = "Decimal" -> x.n # 0
      [] OTHER -> TRUE

-----------------------------------------------------------------------------
(* Text helpers *)

RECURSIVE Flatten(_)
Flatten(ss) == IF ss = <<>> THEN <<>> ELSE Head(ss) \o Flatten(Tail(ss))

\* s.find(c, start) with 0-based positions; -1 when absent
Find(s, c, start) ==
    LET hits == {i \in start..(Len(s) - 1) : s[i + 1] = c}
    IN  IF hits = {} THEN -1 ELSE CHOOSE i \in hits : \A j \in hits : i <= j

\* s.rfind(c); -1 when absent
RFind(s, c) ==
    LET hits == {i \in 0..(Len(s) - 1) : s[i + 1] = c}
    IN  IF hits = {} THEN -1 ELSE CHOOSE i \in hits : \A j \in hits : i >= j

\* s[a:b] for 0 <= a, b
Slice(s, a, b) ==
    LET hi == IF b > Len(s) THEN Len(s) ELSE b
    IN  IF a >= hi THEN <<>> ELSE SubSeq(s, a + 1, hi)

Digits == <<"0", "1", "2", "3", "4", "5", "6", "7", "8", "9">>

RECURSIVE NatStr(_)
NatStr(n) == IF n < 10 THEN <<Digits[n + 1]>>
             ELSE NatStr(n \div 10) \o <<Digits[(n % 10) + 1]>>

\* str(n) for an integer
IntStr(n) == IF n < 0 THEN <<"-">> \o NatStr(0 - n) ELSE NatStr(n)

RECURSIVE ZeroFill(_, _)
ZeroFill(s, w) == IF Len(s) >= w THEN s ELSE ZeroFill(<<"0">> \o s, w)

\* "%0<w>d" % n, n >= 0
FmtD(n, w) == ZeroFill(NatStr(n), w)

\* "%+0<w>d" % n: the sign always, zero-filled to w columns sign included
FmtSignedD(n, w) ==
    IF n < 0 THEN <<"-">> \o ZeroFill(NatStr(0 - n), w - 1)
    ELSE <<"+">> \o ZeroFill(NatStr(n), w - 1)

Uppers == <<"A", "B", "C", "D", "E", "F", "G", "H", "I", "J", "K", "L", "M",
            "N", "O", "P", "Q", "R", "S", "T", "U", "V", "W", "X", "Y", "Z">>

Lowers == <<"a", "b", "c", "d", "e", "f", "g", "h", "i", "j", "k", "l", "m",
            "n", "o", "p", "q", "r", "s", "t", "u", "v", "w", "x", "y", "z">>

LowerChar(c) ==
    IF \E i \in 1..Len(Uppers) : Uppers[i] = c
    THEN Lowers[CHOOSE i \in 1..Len(Uppers) : Uppers[i] = c]
    ELSE c

\* s.lower()
Lower(s) == [i \in 1..Len(s) |-> LowerChar(s[i])]

Range(s) == {s[i] : i \in 1..Len(s)}

-----------------------------------------------------------------------------
(* smart_str, iri_to_uri *)

\* str.encode('utf-8'): an ASCII byte is written as its character, any
\* other byte as its two hexadecimal digits
Utf8Char(c) == IF c = "U+00E9" THEN <<"C3", "A9">> ELSE <<c>>

Utf8Encode(s) == Flatten([i \in 1..Len(s) |-> Utf8Char(s[i])])

\* bytes.decode('utf-8'): the text, or UnicodeDecodeError for a byte of
\* e-acute that is not part of the pair C3 A9
RECURSIVE Utf8Decode(_)
Utf8Decode(bs) ==
    IF bs = <<>> THEN Ok(<<>>)
    ELSE IF Head(bs) \in {"C3", "A9"}
    THEN IF Len(bs) >= 2 /\ bs[1] = "C3" /\ bs[2] = "A9"
              /\ Utf8Decode(SubSeq(bs, 3, Len(bs))).exc = NoExc
         THEN Ok(<<"U+00E9">> \o Utf8Decode(SubSeq(bs, 3, Len(bs))).v)
         ELSE Err("UnicodeDecodeError")
    ELSE IF Utf8Decode(Tail(bs)).exc = NoExc
    THEN Ok(<<Head(bs)>> \o Utf8Decode(Tail(bs)).v)
    ELSE Err("UnicodeDecodeError")

\* str(s) of a value that is not a str: a float or Decimal of the model is
\* a whole number; a datetime prints as isoformat(' ') with the year
\* zero-filled; for bytes it is repr(s), delimited by double quotes when the
\* bytes hold ' and no ", else by single quotes; of lists only the empty one
\* is converted
StrOf(s) ==
    LET q == IF /\ \E i \in 1..Len(s.s) : s.s[i] = "'"
                /\ \A i \in 1..Len(s.s) : s.s[i] # "\""
             THEN "\"" ELSE "'"
        ReprByte(b) ==
            CASE b = "\\" -> <<"\\", "\\">>
              [] b = "\t" -> <<"\\", "t">>
              [] b = "\n" -> <<"\\", "n">>
              [] b = "\r" -> <<"\\", "r">>
              [] b = "\f" -> <<"\\", "x", "0", "c">>
              [] b = "C3" -> <<"\\", "x", "c", "3">>
              [] b = "A9" -> <<"\\", "x", "a", "9">>
              [] b = q -> <<"\\", q>>
              [] OTHER -> <<b>>
    IN
    CASE s.t = "int" -> IntStr(s.n)
      [] s.t = "none" -> <<"N", "o", "n", "e">>
      [] s.t = "bool" -> (IF s.b THEN <<"T", "r", "u", "e">>
                          ELSE <<"F", "a", "l", "s", "e">>)
      [] s.t = "float" -> IntStr(s.n) \o <<".", "0">>
      [] s.t = "Decimal" -> IntStr(s.n)
      [] s.t = "datetime" ->
            FmtD(s.year, 4) \o <<"-">> \o FmtD(s.month, 2) \o <<"-">>
            \o FmtD(s.day, 2) \o <<" ">> \o FmtD(s.hour, 2) \o <<":">>
            \o FmtD(s.minute, 2) \o <<":">> \o FmtD(s.second, 2)
            \o (IF s.aware
                THEN (IF s.off < 0 THEN <<"-">> ELSE <<"+">>)
                     \o FmtD((IF s.off < 0 THEN 0 - s.off ELSE s.off) \div 60, 2)
                     \o <<":">>
                     \o FmtD((IF s.off < 0 THEN 0 - s.off ELSE s.off) % 60, 2)
                ELSE <<>>)
      [] s.t = "bytes" ->
            <<"b", q>> \o Flatten([i \in 1..Len(s.s) |-> ReprByte(s.s[i])]) \o <<q>>
      [] s.t = "list" /\ s.xs = <<>> -> <<"[", "]">>
      [] s.t = "str" -> s.s

smart_str(s, strings_only) ==
    IF strings_only /\ (s.t \in {"none", "int", "bool"}) THEN s
    ELSE IF ~IsStr(s) THEN PyStr(StrOf(s))
    ELSE [t |-> "bytes", s |-> Utf8Encode(s.s)]

\* urllib.parse._ALWAYS_SAFE
AlwaysSafe == Range(Uppers) \cup Range(Lowers) \cup Range(Digits) \cup {"_", ".", "-", "~"}

\* the safe argument of line 74
IriSafe == {"/", "#", "%", "[", "]", "=", ":", ";", "$", "&", "(", ")", "+",
            ",", "!", "?", "*", "@", "'", "~"}

\* '%{:02X}'.format(byte) for the bytes that are not safe
ByteHex(b) ==
    CASE b = " " -> <<"2", "0">>
      [] b = "<" -> <<"3", "C">>
      [] b = ">" -> <<"3", "E">>
      [] b = "\"" -> <<"2", "2">>
      [] b = "\\" -> <<"5", "C">>
      [] b = "^" -> <<"5", "E">>
      [] b = "U+0060" -> <<"6", "0">>   \* the grave accent
      [] b = "{" -> <<"7", "B">>
      [] b = "|" -> <<"7", "C">>
      [] b = "}" -> <<"7", "D">>
      [] b = "\t" -> <<"0", "9">>
      [] b = "\n" -> <<"0", "A">>
      [] b = "\f" -> <<"0", "C">>
      [] b = "\r" -> <<"0", "D">>
      [] b = "C3" -> <<"C", "3">>
      [] b = "A9" -> <<"A", "9">>

QuoteByte(b, safe) ==
    IF b \in AlwaysSafe \cup safe THEN <<b>> ELSE <<"%">> \o ByteHex(b)

\* urllib.parse.quote of bytes, or of a str (encoded as UTF-8 first)
quote(x, safe) ==
    LET bs == IF x.t = "bytes" THEN x.s ELSE Utf8Encode(x.s)
    IN  PyStr(Flatten([i \in 1..Len(bs) |-> QuoteByte(bs[i], safe)]))

iri_to_uri(iri) ==
    IF IsNone(iri) THEN iri
    ELSE quote(smart_str(iri, FALSE), IriSafe)

-----------------------------------------------------------------------------
(* force_unicode *)

is_protected_type(obj) ==
    obj.t \in {"none", "int", "bool", "datetime", "float", "Decimal"}

\* No value of the model has __unicode__, so a value that is not a str
\* reaches str(str(s), encoding, errors) on line 104, which raises TypeError
\* ("decoding str is not supported"); neither except clause catches it.
force_unicode(s, strings_only) ==
    IF strings_only /\ is_protected_type(s) THEN Ok(s)
    ELSE IF ~IsStr(s) THEN Err("TypeError")
    ELSE Ok(s)

-----------------------------------------------------------------------------
(* datetime: the parts of the standard library the formatters call *)

IsLeap(y) == (y % 4 = 0) /\ ((y % 100 # 0) \/ (y % 400 = 0))

DaysInMonth(y, m) ==
    IF m = 2 THEN (IF IsLeap(y) THEN 29 ELSE 28)
    ELSE IF m \in {4, 6, 9, 11} THEN 30 ELSE 31

RECURSIVE DaysBeforeMonth(_, _)
DaysBeforeMonth(y, m) ==
    IF m = 1 THEN 0 ELSE DaysBeforeMonth(y, m - 1) + DaysInMonth(y, m - 1)

\* date.toordinal(): 1 for 0001-01-01
ToOrdinal(d) ==
    LET y == d.year - 1
    IN  y * 365 + (y \div 4) - (y \div 100) + (y \div 400)
        + DaysBeforeMonth(d.year, d.month) + d.day

\* date.weekday(): Monday is 0
Weekday(d) == (ToOrdinal(d) + 6) % 7

DayNames == << <<"M", "o", "n">>, <<"T", "u", "e">>, <<"W", "e", "d">>,
               <<"T", "h", "u">>, <<"F", "r", "i">>, <<"S", "a", "t">>,
               <<"S", "u", "n">> >>

MonthNames == << <<"J", "a", "n">>, <<"F", "e", "b">>, <<"M", "a", "r">>,
                 <<"A", "p", "r">>, <<"M", "a", "y">>, <<"J", "u", "n">>,
                 <<"J", "u", "l">>, <<"A", "u", "g">>, <<"S", "e", "p">>,
                 <<"O", "c", "t">>, <<"N", "o", "v">>, <<"D", "e", "c">> >>

\* date.strftime('%a, %d %b %Y %H:%M:%S ')
StrfRfc2822(d) ==
    DayNames[Weekday(d) + 1] \o <<",", " ">> \o FmtD(d.day, 2) \o <<" ">>
    \o MonthNames[d.month] \o <<" ">> \o NatStr(d.year) \o <<" ">>
    \o FmtD(d.hour, 2) \o <<":">> \o FmtD(d.minute, 2) \o <<":">>
    \o FmtD(d.second, 2) \o <<" ">>

\* date.strftime('%Y-%m-%d'); %Y of the C library does not zero-fill a year
\* below 1000
StrfDate(d) ==
    NatStr(d.year) \o <<"-">> \o FmtD(d.month, 2) \o <<"-">> \o FmtD(d.day, 2)

\* date.strftime('%Y-%m-%dT%H:%M:%S')
StrfRfc3339(d) ==
    StrfDate(d) \o <<"T">> \o FmtD(d.hour, 2) \o <<":">> \o FmtD(d.minute, 2)
    \o <<":">> \o FmtD(d.second, 2)

\* date.tzinfo.utcoffset(date): a timedelta, normalised as Python does
\* (0 <= seconds < 86400, the sign carried by days)
utcoffset(d) ==
    [days |-> (d.off * 60) \div 86400, seconds |-> (d.off * 60) % 86400]

\* What datetime.__lt__ compares, as (days, seconds) since 0001-01-01:
\* the wall-clock fields when both are naive, the UTC instants (the fields
\* minus the offset) when both are aware.
DtKey(d) ==
    LET secs == (d.hour * 60 + d.minute) * 60 + d.second
                - (IF d.aware THEN d.off * 60 ELSE 0)
    IN  [days |-> ToOrdinal(d) + (secs \div 86400), seconds |-> secs % 86400]

\* a < b raises TypeError when exactly one of them is aware, and when
\* exactly one of them is a datetime (two values that are not datetimes are
\* not compared by the model)
DtComparable(a, b) ==
    CASE a.t = "datetime" /\ b.t = "datetime" -> a.aware = b.aware
      [] (a.t = "datetime") # (b.t = "datetime") -> FALSE

DtLess(a, b) ==
    LET ka == DtKey(a)
        kb == DtKey(b)
    IN  \/ ka.days < kb.days
        \/ ka.days = kb.days /\ ka.seconds < kb.seconds

\* a == b for two datetimes (False, never an error, for a naive/aware pair)
DtEq(a, b) == DtComparable(a, b) /\ DtKey(a) = DtKey(b)

-----------------------------------------------------------------------------
(* rfc2822_date, rfc3339_date, get_tag_uri *)

\* The offsets of the model are whole minutes, so offset.seconds / 60 is an
\* exact float and "%d" prints it as the integer it equals.  divmod floors:
\* hour is the floor of timezone / 60 and minute is never negative.
TimezoneMinutes(date) ==
    LET offset == utcoffset(date)
    IN  (offset.days * 24 * 60) + (offset.seconds \div 60)

DivmodHour(timezone) == timezone \div 60

DivmodMinute(timezone) == timezone % 60

\* Faulty variant of HasTzinfo: tests the offset, and timedelta(0) is falsy,
\* so an aware timestamp at offset zero takes the naive branch.
HasTzinfo_nonzero_offset(date) == date.aware /\ date.off # 0

\* "if date.tzinfo:" (a tzinfo object is truthy)
HasTzinfo(date) == date.aware

\* a value that is not a datetime has no tzinfo attribute
rfc2822_date(date) ==
    IF date.t # "datetime" THEN Err("AttributeError")
    ELSE IF HasTzinfo(date) THEN
        LET time_str == StrfRfc2822(date)
            timezone == TimezoneMinutes(date)
            hour     == DivmodHour(timezone)
            minute   == DivmodMinute(timezone)
        IN  Ok(PyStr(time_str \o FmtSignedD(hour, 3) \o FmtD(minute, 2)))
    ELSE Ok(PyStr(StrfRfc2822(date) \o <<"-", "0", "0", "0", "0">>))

rfc3339_date(date) ==
    IF date.t # "datetime" THEN Err("AttributeError")
    ELSE IF HasTzinfo(date) THEN
        LET time_str == StrfRfc3339(date)
            timezone == TimezoneMinutes(date)
            hour     == DivmodHour(timezone)
            minute   == DivmodMinute(timezone)
        IN  Ok(PyStr(time_str \o FmtSignedD(hour, 3) \o <<":">> \o FmtD(minute, 2)))
    ELSE Ok(PyStr(StrfRfc3339(date) \o <<"Z">>))

\* urllib.parse.uses_params
UsesParams == {<<>>, <<"f", "t", "p">>, <<"h", "d", "l">>,
               <<"p", "r", "o", "s", "p", "e", "r", "o">>,
               <<"h", "t", "t", "p">>, <<"i", "m", "a", "p">>,
               <<"h", "t", "t", "p", "s">>, <<"s", "h", "t", "t", "p">>,
               <<"r", "t", "s", "p">>, <<"r", "t", "s", "p", "s">>,
               <<"r", "t", "s", "p", "u">>, <<"s", "i", "p">>,
               <<"s", "i", "p", "s">>, <<"m", "m", "s">>,
               <<"s", "f", "t", "p">>, <<"t", "e", "l">>}

SchemeChars == Range(Uppers) \cup Range(Lowers) \cup Range(Digits) \cup {"+", "-", "."}

HexDigits == Range(Digits) \cup {"a", "b", "c", "d", "e", "f", "A", "B", "C", "D", "E", "F"}

\* <<head, tail>> of s.split(c, 1), <<s, ''>> when c is absent; these are
\* also s.partition(c)[0] and s.partition(c)[2]
Split1(s, c) ==
    IF Find(s, c, 0) >= 0
    THEN <<Slice(s, 0, Find(s, c, 0)), Slice(s, Find(s, c, 0) + 1, Len(s))>>
    ELSE <<s, <<>> >>

\* s.split(c)
RECURSIVE SplitAll(_, _)
SplitAll(s, c) ==
    IF Find(s, c, 0) < 0 THEN <<s>>
    ELSE <<Split1(s, c)[1]>> \o SplitAll(Split1(s, c)[2], c)

\* ipaddress.IPv4Address(s) does not raise: four octets, each accepted by
\* _parse_octet (decimal digits, at most three, no leading zero, at most 255)
IsIPv4(s) ==
    LET IsOctet(o) ==
            /\ o # <<>>
            /\ \A i \in 1..Len(o) : o[i] \in Range(Digits)
            /\ Len(o) <= 3
            /\ (o = <<"0">> \/ o[1] # "0")
            /\ \/ Len(o) < 3
               \/ o[1] = "1"
               \/ o[1] = "2" /\ o[2] \in {"0", "1", "2", "3", "4"}
               \/ o[1] = "2" /\ o[2] = "5" /\ o[3] \in {"0", "1", "2", "3", "4", "5"}
    IN  /\ Len(SplitAll(s, ".")) = 4
        /\ \A i \in 1..4 : IsOctet(SplitAll(s, ".")[i])

\* IPv6Address._ip_int_from_string from "An IPv6 address can't have more
\* than 8 colons" on: p are the parts, k the part that stands for '::';
\* _parse_hextet accepts one to four hex digits
IsIPv6Parts(p) ==
    LET IsHextet(h) ==
            h # <<>> /\ Len(h) <= 4 /\ \A i \in 1..Len(h) : h[i] \in HexDigits
        skips == {i \in 2..(Len(p) - 1) : p[i] = <<>>}
        k  == CHOOSE i \in skips : TRUE
        hi == IF p[1] = <<>> THEN k - 2 ELSE k - 1
        lo == IF p[Len(p)] = <<>> THEN Len(p) - k - 1 ELSE Len(p) - k
    IN  /\ Len(p) <= 9
        /\ Cardinality(skips) <= 1
        /\ IF skips # {}
           THEN /\ (p[1] = <<>> => hi = 0)
                /\ (p[Len(p)] = <<>> => lo = 0)
                /\ 8 - (hi + lo) >= 1
                /\ \A i \in (1..hi) \cup ((Len(p) - lo + 1)..Len(p)) : IsHextet(p[i])
           ELSE /\ Len(p) = 8
                /\ \A i \in 1..8 : IsHextet(p[i])

\* ipaddress.IPv6Address(s) does not raise: a scope id after '%' is not
\* empty and holds no '%'; the address before it has at least three parts
\* between colons, and an IPv4-style last part is replaced by two hextets,
\* which are always well-formed
IsIPv6(s) ==
    LET parts == SplitAll(Split1(s, "%")[1], ":")
    IN  /\ Find(s, "%", 0) >= 0 =>
               /\ Split1(s, "%")[2] # <<>>
               /\ Find(Split1(s, "%")[2], "%", 0) < 0
        /\ Len(parts) >= 3
        /\ IF Find(parts[Len(parts)], ".", 0) >= 0
           THEN /\ IsIPv4(parts[Len(parts)])
                /\ IsIPv6Parts(SubSeq(parts, 1, Len(parts) - 1)
                               \o << <<"0">>, <<"0">> >>)
           ELSE IsIPv6Parts(parts)

\* urllib.parse._check_bracketed_host(h) does not raise: an IPvFuture
\* address matches v[a-fA-F0-9]+\..+ and any other host is an IPv6 address
\* (ip_address raises ValueError for what is no address, and an IPv4
\* address in brackets is rejected with ValueError too)
BracketedHostOk(h) ==
    IF h # <<>> /\ h[1] = "v"
    THEN \E q \in 3..(Len(h) - 1) :
             /\ h[q] = "."
             /\ \A k \in 2..(q - 1) : h[k] \in HexDigits
    ELSE IsIPv6(h)

\* urlsplit: url.lstrip(_WHATWG_C0_CONTROL_OR_SPACE), then the removal of
\* tab, CR and LF wherever they stand
CleanUrl(url) ==
    Flatten([i \in 1..Len(url) |->
        IF \/ \A j \in 1..i : url[j] \in {" ", "\t", "\n", "\r", "\f"}
           \/ url[i] \in {"\t", "\r", "\n"}
        THEN <<>> ELSE <<url[i]>>])

\* the earliest of '/', '?', '#' at or after start, else len(url)
NetlocEnd(url, start) ==
    LET ds == {Find(url, c, start) : c \in {"/", "?", "#"}} \ {-1}
    IN  IF ds = {} THEN Len(url) ELSE CHOOSE i \in ds : \A j \in ds : i <= j

\* urlsplit, lines "i = url.find(':')" to "scheme, url = url[:i].lower(), url[i+1:]"
HasScheme(url, i) ==
    /\ i > 0
    /\ url[1] \in Range(Uppers) \cup Range(Lowers)
    /\ \A k \in 1..i : url[k] \in SchemeChars

\* <<scheme, url>> after those lines
SchemeSplit(url) ==
    IF HasScheme(url, Find(url, ":", 0))
    THEN <<Lower(Slice(url, 0, Find(url, ":", 0))),
           Slice(url, Find(url, ":", 0) + 1, Len(url))>>
    ELSE << <<>>, url>>

\* urlsplit, "if url[:2] == '//': netloc, url = _splitnetloc(url, 2)":
\* <<netloc, url>>
splitnetloc(url) ==
    IF Slice(url, 0, 2) = <<"/", "/">>
    THEN <<Slice(url, 2, NetlocEnd(url, 2)), Slice(url, NetlocEnd(url, 2), Len(url))>>
    ELSE << <<>>, url>>

\* urlsplit: a netloc with one bracket and not the other, or with a
\* bracketed host that is no address, raises ValueError
NetlocExc(netloc) ==
    IF (Find(netloc, "[", 0) >= 0) # (Find(netloc, "]", 0) >= 0) THEN "ValueError"
    ELSE IF /\ Find(netloc, "[", 0) >= 0
            /\ ~BracketedHostOk(Split1(Split1(netloc, "[")[2], "]")[1])
    THEN "ValueError"
    ELSE NoExc

\* urlsplit once scheme and netloc are taken off: fragment, then query.
\* _checknetloc rejects nothing: a non-ASCII character of the model (e-acute)
\* is unchanged by NFKC normalisation.
SplitRest(scheme, nl) ==
    IF NetlocExc(nl[1]) # NoExc THEN Err(NetlocExc(nl[1]))
    ELSE Ok([scheme |-> scheme, netloc |-> nl[1],
             path |-> Split1(Split1(nl[2], "#")[1], "?")[1],
             query |-> Split1(Split1(nl[2], "#")[1], "?")[2],
             fragment |-> Split1(nl[2], "#")[2]])

\* urllib.parse.urlsplit: [scheme, netloc, path, query, fragment], or ValueError
urlsplit(url) ==
    SplitRest(SchemeSplit(CleanUrl(url))[1],
              splitnetloc(SchemeSplit(CleanUrl(url))[2]))

\* urllib.parse._splitparams: <<url, params>>
SplitParamsAt(url, slash, i) ==
    IF slash >= 0 /\ i < 0 THEN <<url, <<>> >>
    ELSE <<Slice(url, 0, i), Slice(url, i + 1, Len(url))>>

SplitParams(url) ==
    SplitParamsAt(url, RFind(url, "/"),
                  IF RFind(url, "/") >= 0 THEN Find(url, ";", RFind(url, "/"))
                  ELSE Find(url, ";", 0))

\* urlparse, "if scheme in uses_params and ';' in url"
PathAndParams(r) ==
    IF r.scheme \in UsesParams /\ Find(r.path, ";", 0) >= 0
    THEN SplitParams(r.path) ELSE <<r.path, <<>> >>

\* urlparse after urlsplit returned or raised r
ParseSplit(r) ==
    IF r.exc # NoExc THEN r
    ELSE Ok([scheme |-> r.v.scheme, netloc |-> r.v.netloc,
             path |-> PathAndParams(r.v)[1], params |-> PathAndParams(r.v)[2],
             query |-> r.v.query, fragment |-> r.v.fragment])

\* urllib.parse.urlparse of a str
urlparse(url) == ParseSplit(urlsplit(url))

\* _hostinfo: netloc.rpartition('@')[2]
HostInfo(netloc) ==
    IF RFind(netloc, "@") >= 0
    THEN Slice(netloc, RFind(netloc, "@") + 1, Len(netloc)) ELSE netloc

\* _hostinfo: the text between '[' and ']' when hostinfo has a '[', else
\* hostinfo.partition(':')[0]
HostPart(hostinfo) ==
    IF Find(hostinfo, "[", 0) >= 0
    THEN Split1(Split1(hostinfo, "[")[2], "]")[1]
    ELSE Split1(hostinfo, ":")[1]

\* "%s" % h, h being ParseResult.hostname with _hostinfo[0] = host: None for
\* an empty host, else the part before the first '%' lower-cased and the
\* rest as it is
Hostname(host) ==
    IF host = <<>> THEN <<"N", "o", "n", "e">>
    ELSE Lower(Split1(host, "%")[1])
         \o (IF Find(host, "%", 0) >= 0 THEN <<"%">> \o Split1(host, "%")[2]
             ELSE <<>>)

\* lines 166-173, url_split being urlparse(url)
TagUriOf(url_split, date) ==
    PyStr(<<"t", "a", "g", ":">> \o Hostname(HostPart(HostInfo(url_split.netloc)))
          \o (IF ~IsNone(date) THEN <<",">> \o StrfDate(date) ELSE <<>>)
          \o <<":">> \o url_split.path \o <<"/">> \o url_split.fragment)

\* urlparse of a url that is not a str: a truthy value is decoded as ASCII
\* (AttributeError when it has no decode method), a falsy one counts as '';
\* the result then holds bytes, and url_split[1].split(':') on line 164
\* raises TypeError.  For a str, date.strftime raises AttributeError when
\* date is neither None nor a datetime.
get_tag_uri(url, date) ==
    IF ~IsStr(url) THEN
        IF Truthy(url) /\ url.t # "bytes" THEN Err("AttributeError")
        ELSE IF url.t = "bytes" /\ (\E i \in 1..Len(url.s) : url.s[i] \in {"C3", "A9"})
        THEN Err("UnicodeDecodeError")
        ELSE IF url.t = "bytes" /\ urlparse(url.s).exc # NoExc
        THEN Err(urlparse(url.s).exc)
        ELSE Err("TypeError")
    ELSE IF urlparse(url.s).exc # NoExc THEN Err(urlparse(url.s).exc)
    ELSE IF date.t \notin {"none", "datetime"} THEN Err("AttributeError")
    ELSE Ok(TagUriOf(urlparse(url.s).v, date))

-----------------------------------------------------------------------------
(* SimplerXMLGenerator.  A renderer is modelled by the sequence of handler  *)
(* calls it makes, in order; each call either reaches the handler (a SAX    *)
(* event) or raises.  Run keeps the events before the first call that       *)
(* raises: the exception propagates out of write and nothing after it runs. *)

\* a literal of the source that no code looks into, kept as one symbol
Lit(text) == PyStr(<<text>>)

Event(e, name, attrs, text) ==
    [e |-> e, name |-> name, attrs |-> attrs, text |-> text, exc |-> NoExc]

Raises(exc) == [e |-> "raise", name |-> "", attrs |-> <<>>, text |-> <<>>, exc |-> exc]

\* the smallest index of a raising call, 0 when none raises
FirstRaise(steps) ==
    IF \E i \in 1..Len(steps) : steps[i].e = "raise"
    THEN CHOOSE i \in 1..Len(steps) :
             /\ steps[i].e = "raise"
             /\ \A j \in 1..(i - 1) : steps[j].e # "raise"
    ELSE 0

RunTo(steps, i) ==
    IF i = 0 THEN [ev |-> steps, exc |-> NoExc]
    ELSE [ev |-> SubSeq(steps, 1, i - 1), exc |-> steps[i].exc]

\* what the handler received, and the exception that ended the calls
Run(steps) == RunTo(steps, FirstRaise(steps))

startDocument == <<Event("startDocument", "", <<>>, <<>>)>>

\* quoteattr(value) calls value.replace("&", "&amp;"): a value without a
\* replace method raises AttributeError; bytes.replace and datetime.replace
\* reject the str arguments with TypeError
\* The attributes are written in order, so the first value that is not a
\* str decides the exception; a call that raised is not recorded as an event.
startElement(name, attrs) ==
    IF \A i \in 1..Len(attrs) : IsStr(attrs[i][2])
    THEN <<Event("startElement", name, attrs, <<>>)>>
    ELSE <<Raises(IF attrs[CHOOSE i \in 1..Len(attrs) :
                               /\ ~IsStr(attrs[i][2])
                               /\ \A j \in 1..(i - 1) : IsStr(attrs[j][2])][2].t
                         \in {"bytes", "datetime"}
                  THEN "TypeError" ELSE "AttributeError")>>

\* a falsy content writes nothing; a content that is not a str goes through
\* str(content, encoding), which decodes bytes and raises TypeError for
\* every other type
characters(content) ==
    IF ~Truthy(content) THEN <<>>
    ELSE IF IsStr(content) THEN <<Event("characters", "", <<>>, content.s)>>
    ELSE IF content.t # "bytes" THEN <<Raises("TypeError")>>
    ELSE IF Utf8Decode(content.s).exc # NoExc
    THEN <<Raises(Utf8Decode(content.s).exc)>>
    ELSE <<Event("characters", "", <<>>, Utf8Decode(content.s).v)>>

endElement(name) == <<Event("endElement", name, <<>>, <<>>)>>

addQuickElement(name, contents, attrs) ==
    startElement(name, attrs)
    \o (IF ~IsNone(contents) THEN characters(contents) ELSE <<>>)
    \o endElement(name)

\* "if <cond>: handler.addQuickElement(name, contents, attrs)"
IfQuickElement(cond, name, contents, attrs) ==
    IF cond THEN addQuickElement(name, contents, attrs) ELSE <<>>

\* handler.addQuickElement(name, <text>) where evaluating <text> gave r:
\* an exception raised by the argument propagates before the call is made
QuickElementOf(name, r) ==
    IF r.exc # NoExc THEN <<Raises(r.exc)>>
    ELSE addQuickElement(name, r.v, <<>>)

-----------------------------------------------------------------------------
(* SyndicationFeed *)

to_unicode(s) == force_unicode(s, TRUE)

\* [f(c) for c in xs]: the list, or the first exception
RECURSIVE ForceAll(_, _)
ForceAll(xs, strings_only) ==
    IF xs = <<>> THEN Ok(<<>>)
    ELSE LET r == force_unicode(Head(xs), strings_only)
             rest == ForceAll(Tail(xs), strings_only)
         IN  IF r.exc # NoExc THEN Err(r.exc)
             ELSE IF rest.exc # NoExc THEN Err(rest.exc)
             ELSE [exc |-> NoExc, v |-> <<r.v>> \o rest.v]

\* the first exception among results evaluated left to right, or NoExc
RECURSIVE FirstExc(_)
FirstExc(rs) ==
    IF rs = <<>> THEN NoExc
    ELSE IF Head(rs).exc # NoExc THEN Head(rs).exc ELSE FirstExc(Tail(rs))

\* "if categories: categories = [f(c) for c in categories]" and then
\* "categories or ()": a falsy value gives (); a list or tuple is iterated
\* by element and a str by character; a truthy value that cannot be
\* iterated raises TypeError, and so does force_unicode of the integers
\* that bytes yield (to_unicode keeps them: that case is left undefined)
Categories(c, strings_only) ==
    IF ~Truthy(c) THEN Ok(<<>>)
    ELSE CASE c.t = "list" -> ForceAll(c.xs, strings_only)
           [] c.t = "str" ->
                ForceAll([i \in 1..Len(c.s) |-> PyStr(<<c.s[i]>>)], strings_only)
           [] c.t \notin {"list", "str"} /\ (c.t # "bytes" \/ ~strings_only) ->
                Err("TypeError")

\* __init__: the dict self.feed, or the exception raised.  Of the keys of
\* self.feed only 'id' is not the name of a parameter, so it is the one key
\* that self.feed.update(kwargs) can replace; kwargs holds the other keys.
SyndicationFeed_init(a) ==
    LET cats == Categories(a.categories, FALSE)
        ttl == IF ~IsNone(a.ttl) THEN force_unicode(a.ttl, FALSE) ELSE Ok(a.ttl)
        title == to_unicode(a.title)
        description == to_unicode(a.description)
        language == to_unicode(a.language)
        author_email == to_unicode(a.author_email)
        author_name == to_unicode(a.author_name)
        subtitle == to_unicode(a.subtitle)
        feed_copyright == to_unicode(a.feed_copyright)
        exc == FirstExc(<<cats, ttl, title, description, language, author_email,
                          author_name, subtitle, feed_copyright>>)
    IN  IF exc # NoExc THEN Err(exc)
        ELSE [exc |-> NoExc, v |->
             [title |-> title.v,
              link |-> iri_to_uri(a.link),
              description |-> description.v,
              language |-> language.v,
              author_email |-> author_email.v,
              author_name |-> author_name.v,
              author_link |-> iri_to_uri(a.author_link),
              subtitle |-> subtitle.v,
              categories |-> cats.v,
              feed_url |-> iri_to_uri(a.feed_url),
              feed_copyright |-> feed_copyright.v,
              id |-> IF "id" \in DOMAIN a.kwargs THEN a.kwargs.id
                     ELSE IF Truthy(a.feed_guid) THEN a.feed_guid ELSE a.link,
              ttl |-> ttl.v,
              kwargs |-> [k \in DOMAIN a.kwargs \ {"id"} |-> a.kwargs[k]]]]

\* Enclosure.__init__
Enclosure_init(url, length, mime_type) ==
    [t |-> "Enclosure", url |-> iri_to_uri(url), length |-> length,
     mime_type |-> mime_type]

\* the caller's enclosure=Enclosure(url, length, mime_type); any other
\* value (None by default) is stored as it is
MakeEnclosure(e) ==
    IF e.t = "args" THEN Enclosure_init(e.url, e.length, e.mime_type) ELSE e

\* Faulty variant of AppendItem: the new item goes first.
AppendItem_insert_first(its, item) == <<item>> \o its

\* self.items.append(item)
AppendItem(its, item) == Append(its, item)

\* add_item: the new self.items, or the exception raised (before the append)
add_item(its, a) ==
    LET cats == Categories(a.categories, TRUE)
        ttl == IF ~IsNone(a.ttl) THEN force_unicode(a.ttl, FALSE) ELSE Ok(a.ttl)
        title == to_unicode(a.title)
        description == to_unicode(a.description)
        author_email == to_unicode(a.author_email)
        author_name == to_unicode(a.author_name)
        comments == to_unicode(a.comments)
        unique_id == to_unicode(a.unique_id)
        item_copyright == to_unicode(a.item_copyright)
        exc == FirstExc(<<cats, ttl, title, description, author_email,
                          author_name, comments, unique_id, item_copyright>>)
        item == [title |-> title.v,
                 link |-> iri_to_uri(a.link),
                 description |-> description.v,
                 author_email |-> author_email.v,
                 author_name |-> author_name.v,
                 author_link |-> iri_to_uri(a.author_link),
                 pubdate |-> a.pubdate,
                 comments |-> comments.v,
                 unique_id |-> unique_id.v,
                 enclosure |-> MakeEnclosure(a.enclosure),
                 categories |-> cats.v,
                 item_copyright |-> item_copyright.v,
                 ttl |-> ttl.v,
                 kwargs |-> a.kwargs]
    IN  IF exc # NoExc THEN Err(exc)
        ELSE [exc |-> NoExc, v |-> AppendItem(its, item)]

num_items(its) == Len(its)

\* [i['pubdate'] for i in self.items if i['pubdate'] is not None]
RECURSIVE Updates(_)
Updates(its) ==
    IF its = <<>> THEN <<>>
    ELSE (IF ~IsNone(Head(its).pubdate) THEN <<Head(its).pubdate>> ELSE <<>>)
         \o Updates(Tail(its))

\* list.sort() is stable: x goes after the elements that are not greater
RECURSIVE SortedInsert(_, _)
SortedInsert(s, x) ==
    IF s = <<>> THEN <<x>>
    ELSE IF DtLess(x, Head(s)) THEN <<x>> \o s
    ELSE <<Head(s)>> \o SortedInsert(Tail(s), x)

RECURSIVE SortList(_)
SortList(s) ==
    IF s = <<>> THEN <<>>
    ELSE SortedInsert(SortList(SubSeq(s, 1, Len(s) - 1)), s[Len(s)])

\* Sorting two or more datetimes compares every element with another one,
\* so it raises TypeError exactly when naive and aware ones are mixed; a
\* list of one element is returned without a comparison.
SortRaises(s) == \E i, j \in 1..Len(s) : i # j /\ ~DtComparable(s[i], s[j])

\* Faulty variant of latest_post_date: the list is not sorted, so the
\* pubdate of the item added last is returned.
latest_post_date_unsorted(its, now) ==
    IF Len(Updates(its)) > 0 THEN Ok(Updates(its)[Len(Updates(its))])
    ELSE Ok(now)

\* now: what datetime.datetime.now() returns at the call
latest_post_date(its, now) ==
    LET updates == Updates(its)
    IN  IF Len(updates) > 0 THEN
            IF SortRaises(updates) THEN Err("TypeError")
            ELSE Ok(SortList(updates)[Len(updates)])
        ELSE Ok(now)

-----------------------------------------------------------------------------
(* RssFeed, RssUserland091Feed, Rss201rev2Feed *)

\* x.decode('utf-8'): a str has no decode method
decode(x) ==
    IF x.t # "bytes" THEN Err("AttributeError")
    ELSE IF Utf8Decode(x.s).exc # NoExc THEN Err("UnicodeDecodeError")
    ELSE Ok(PyStr(Utf8Decode(x.s).v))

\* rfc2822_date(<date>).decode('utf-8')
Rfc2822Decoded(date) ==
    IF date.exc # NoExc THEN date
    ELSE IF rfc2822_date(date.v).exc # NoExc THEN rfc2822_date(date.v)
    ELSE decode(rfc2822_date(date.v).v)

RssVersion(cls) == IF cls = "RssUserland091Feed" THEN Lit("0.91") ELSE Lit("2.0")

rss_attributes(cls) ==
    << <<"version", RssVersion(cls)>>,
       <<"xmlns:atom", Lit("http://www.w3.org/2005/Atom")>> >>

\* for cat in cats: handler.addQuickElement("category", cat)
RssCategories(cats) ==
    Flatten([i \in 1..Len(cats) |-> addQuickElement("category", cats[i], <<>>)])

RssFeed_add_root_elements(fd, its, now) ==
    addQuickElement("title", fd.title, <<>>)
    \o addQuickElement("link", fd.link, <<>>)
    \o addQuickElement("description", fd.description, <<>>)
    \o addQuickElement("atom:link", None,
                       << <<"rel", Lit("self")>>, <<"href", fd.feed_url>> >>)
    \o IfQuickElement(~IsNone(fd.language), "language", fd.language, <<>>)
    \o RssCategories(fd.categories)
    \o IfQuickElement(~IsNone(fd.feed_copyright), "copyright", fd.feed_copyright, <<>>)
    \o QuickElementOf("lastBuildDate", Rfc2822Decoded(latest_post_date(its, now)))
    \o IfQuickElement(~IsNone(fd.ttl), "ttl", fd.ttl, <<>>)

\* Faulty variant of RssUserland091Feed_add_item_elements: the guid of
\* RSS 2.0 is emitted too.
RssUserland091Feed_add_item_elements_with_guid(item) ==
    addQuickElement("title", item.title, <<>>)
    \o addQuickElement("link", item.link, <<>>)
    \o IfQuickElement(~IsNone(item.description), "description", item.description, <<>>)
    \o IfQuickElement(~IsNone(item.unique_id), "guid", item.unique_id, <<>>)

RssUserland091Feed_add_item_elements(item) ==
    addQuickElement("title", item.title, <<>>)
    \o addQuickElement("link", item.link, <<>>)
    \o IfQuickElement(~IsNone(item.description), "description", item.description, <<>>)

\* "%s (%s)" % (author_email, author_name)
AuthorText(email, name) ==
    PyStr(StrOf(email) \o <<" ", "(">> \o StrOf(name) \o <<")">>)

\* Faulty variant of Rss201rev2Feed_author: the email is tested first, so
\* the combined "email (name)" form is never produced.
Rss201rev2Feed_author_email_first(item) ==
    IF Truthy(item.author_email)
    THEN addQuickElement("author", item.author_email, <<>>)
    ELSE IF Truthy(item.author_name)
    THEN addQuickElement("dc:creator", item.author_name,
             << <<"xmlns:dc", Lit("http://purl.org/dc/elements/1.1/")>> >>)
    ELSE <<>>

\* lines 358-365
Rss201rev2Feed_author(item) ==
    IF Truthy(item.author_name) /\ Truthy(item.author_email)
    THEN addQuickElement("author",
                         AuthorText(item.author_email, item.author_name), <<>>)
    ELSE IF Truthy(item.author_email)
    THEN addQuickElement("author", item.author_email, <<>>)
    ELSE IF Truthy(item.author_name)
    THEN addQuickElement("dc:creator", item.author_name,
             << <<"xmlns:dc", Lit("http://purl.org/dc/elements/1.1/")>> >>)
    ELSE <<>>

\* lines 367-368
Rss201rev2Feed_pubDate(item) ==
    IF ~IsNone(item.pubdate)
    THEN QuickElementOf("pubDate", Rfc2822Decoded(Ok(item.pubdate)))
    ELSE <<>>

\* lines 377-380
Rss201rev2Feed_enclosure(item) ==
    IF IsNone(item.enclosure) THEN <<>>
    ELSE IF item.enclosure.t # "Enclosure" THEN <<Raises("AttributeError")>>
    ELSE addQuickElement("enclosure", PyStr(<<>>),
             << <<"url", item.enclosure.url>>,
                <<"length", item.enclosure.length>>,
                <<"type", item.enclosure.mime_type>> >>)

Rss201rev2Feed_add_item_elements(item) ==
    addQuickElement("title", item.title, <<>>)
    \o addQuickElement("link", item.link, <<>>)
    \o IfQuickElement(~IsNone(item.description), "description", item.description, <<>>)
    \o Rss201rev2Feed_author(item)
    \o Rss201rev2Feed_pubDate(item)
    \o IfQuickElement(~IsNone(item.comments), "comments", item.comments, <<>>)
    \o IfQuickElement(~IsNone(item.unique_id), "guid", item.unique_id, <<>>)
    \o IfQuickElement(~IsNone(item.ttl), "ttl", item.ttl, <<>>)
    \o Rss201rev2Feed_enclosure(item)
    \o RssCategories(item.categories)

-----------------------------------------------------------------------------
(* Atom1Feed *)

AtomNs == Lit("http://www.w3.org/2005/Atom")

Atom1Feed_root_attributes(fd) ==
    IF ~IsNone(fd.language)
    THEN << <<"xmlns", AtomNs>>, <<"xml:lang", fd.language>> >>
    ELSE << <<"xmlns", AtomNs>> >>

\* for cat in cats: handler.addQuickElement("category", "", {"term": cat})
AtomCategories(cats) ==
    Flatten([i \in 1..Len(cats) |->
                addQuickElement("category", PyStr(<<>>), << <<"term", cats[i]>> >>)])

\* the author block of the feed (lines 412-419) and of an entry (440-447)
AtomAuthor(x) ==
    IF ~IsNone(x.author_name) THEN
        startElement("author", <<>>)
        \o addQuickElement("name", x.author_name, <<>>)
        \o IfQuickElement(~IsNone(x.author_email), "email", x.author_email, <<>>)
        \o IfQuickElement(~IsNone(x.author_link), "uri", x.author_link, <<>>)
        \o endElement("author")
    ELSE <<>>

\* rfc3339_date(<date>)
Rfc3339Of(date) ==
    IF date.exc # NoExc THEN date ELSE rfc3339_date(date.v)

Atom1Feed_add_root_elements(fd, its, now) ==
    addQuickElement("title", fd.title, <<>>)
    \o addQuickElement("link", PyStr(<<>>),
                       << <<"rel", Lit("alternate")>>, <<"href", fd.link>> >>)
    \o IfQuickElement(~IsNone(fd.feed_url), "link", PyStr(<<>>),
                      << <<"rel", Lit("self")>>, <<"href", fd.feed_url>> >>)
    \o addQuickElement("id", fd.id, <<>>)
    \o QuickElementOf("updated", Rfc3339Of(latest_post_date(its, now)))
    \o AtomAuthor(fd)
    \o IfQuickElement(~IsNone(fd.subtitle), "subtitle", fd.subtitle, <<>>)
    \o AtomCategories(fd.categories)
    \o IfQuickElement(~IsNone(fd.feed_copyright), "rights", fd.feed_copyright, <<>>)

\* Faulty variant of AtomUniqueId: the supplied unique_id is ignored.
AtomUniqueId_always_tag(item) == get_tag_uri(item.link, item.pubdate)

\* lines 449-454: the text of the entry's id element, or the exception
\* get_tag_uri raises
AtomUniqueId(item) ==
    IF ~IsNone(item.unique_id) THEN Ok(item.unique_id)
    ELSE get_tag_uri(item.link, item.pubdate)

\* lines 436-437
Atom1Feed_updated(item) ==
    IF ~IsNone(item.pubdate)
    THEN QuickElementOf("updated", rfc3339_date(item.pubdate))
    ELSE <<>>

\* lines 461-466
Atom1Feed_enclosure(item) ==
    IF IsNone(item.enclosure) THEN <<>>
    ELSE IF item.enclosure.t # "Enclosure" THEN <<Raises("AttributeError")>>
    ELSE addQuickElement("link", PyStr(<<>>),
             << <<"rel", Lit("enclosure")>>,
                <<"href", item.enclosure.url>>,
                <<"length", item.enclosure.length>>,
                <<"type", item.enclosure.mime_type>> >>)

Atom1Feed_add_item_elements(item) ==
    addQuickElement("title", item.title, <<>>)
    \o addQuickElement("link", PyStr(<<>>),
                       << <<"href", item.link>>, <<"rel", Lit("alternate")>> >>)
    \o Atom1Feed_updated(item)
    \o AtomAuthor(item)
    \o QuickElementOf("id", AtomUniqueId(item))
    \o IfQuickElement(~IsNone(item.description), "summary", item.description,
                      << <<"type", Lit("html")>> >>)
    \o Atom1Feed_enclosure(item)
    \o AtomCategories(item.categories)
    \o IfQuickElement(~IsNone(item.item_copyright), "rights", item.item_copyright, <<>>)

-----------------------------------------------------------------------------
(* write *)

IsRss(cls) == cls \in {"RssUserland091Feed", "Rss201rev2Feed"}

\* the add_item_elements of the class
add_item_elements(cls, item) ==
    CASE cls = "RssUserland091Feed" -> RssUserland091Feed_add_item_elements(item)
      [] cls = "Rss201rev2Feed" -> Rss201rev2Feed_add_item_elements(item)
      [] cls = "Atom1Feed" -> Atom1Feed_add_item_elements(item)

\* the element of one item: 'item' in RssFeed, 'entry' in Atom1Feed

\* write_items of RssFeed and of Atom1Feed; item_attributes(item) is {}
write_items(cls, its) ==
    Flatten([k \in 1..Len(its) |->
                startElement(IF IsRss(cls) THEN "item" ELSE "entry", <<>>)
                \o add_item_elements(cls, its[k])
                \o endElement(IF IsRss(cls) THEN "item" ELSE "entry")])

RssFeed_write(cls, fd, its, now) ==
    Run(startDocument
        \o startElement("rss", rss_attributes(cls))
        \o startElement("channel", <<>>)
        \o RssFeed_add_root_elements(fd, its, now)
        \o write_items(cls, its)
        \o endElement("channel")
        \o endElement("rss"))

Atom1Feed_write(fd, its, now) ==
    Run(startDocument
        \o startElement("feed", Atom1Feed_root_attributes(fd))
        \o Atom1Feed_add_root_elements(fd, its, now)
        \o write_items("Atom1Feed", its)
        \o endElement("feed"))

write(cls, fd, its, now) ==
    IF IsRss(cls) THEN RssFeed_write(cls, fd, its, now)
    ELSE Atom1Feed_write(fd, its, now)

-----------------------------------------------------------------------------
(* The callers' inputs *)

MaxItems == 2

Http == <<"h", "t", "t", "p", ":", "/", "/">>

UrlFeed == Http \o <<"x", "/">>
UrlFeedSp == Http \o <<"x", "/", "f", " ", "g">>
UrlRss == Http \o <<"x", "/", "r", "s", "s">>
UrlRssSp == Http \o <<"x", "/", "r", " ", "s">>
UrlA == Http \o <<"x", "/", "a">>
UrlB == Http \o <<"E", "x", ".", "c", "o", "m", ":", "8", "0", "/", "p", " ", "q", "#", "f">>
UrlC == Http \o <<"x", "/", "c", " ", "d">>
UrlU == Http \o <<"x", "/", "U+00E9">>
UrlE == Http \o <<"x", "/", "a", " ", "b", ".", "m", "p", "3">>
UrlP == Http \o <<"u", "@", "x", "/", "p", ";", "k", "?", "q", "=", "1">>
UrlRel == <<"/", "r", "#", "t">>

PyList(xs) == [t |-> "list", xs |-> xs]

NoKwargs == [k \in {} |-> None]

\* naive pubdates, and aware ones: Aware1 and Aware2 are the same instant
Naive1 == DateTime(2009, 1, 1, 12, 0, 0, FALSE, 0)
Naive2 == DateTime(2009, 1, 2, 0, 0, 0, FALSE, 0)
Aware1 == DateTime(2009, 1, 1, 5, 30, 0, TRUE, 330)
Aware2 == DateTime(2009, 1, 1, 0, 0, 0, TRUE, 0)
Aware3 == DateTime(2008, 12, 31, 23, 0, 0, TRUE, 0 - 330)

\* what datetime.datetime.now() may return
NowSet == {DateTime(2010, 6, 15, 8, 0, 0, FALSE, 0),
           DateTime(2010, 6, 15, 8, 0, 1, FALSE, 0)}

FeedMinimal ==
    [title |-> PyStr(<<"T">>), link |-> PyStr(UrlFeed), description |-> PyStr(<<"D">>),
     language |-> None, author_email |-> None, author_name |-> None,
     author_link |-> None, subtitle |-> None, categories |-> None,
     feed_url |-> None, feed_copyright |-> None, feed_guid |-> None,
     ttl |-> None, kwargs |-> NoKwargs]

FeedFull ==
    [title |-> PyStr(<<"T", "2">>), link |-> PyStr(UrlFeedSp),
     description |-> PyStr(<<"D", "<", "2">>),
     language |-> PyStr(<<"e", "n">>), author_email |-> PyStr(<<"e", "@", "x">>),
     author_name |-> PyStr(<<"N">>), author_link |-> PyStr(UrlU),
     subtitle |-> PyStr(<<"s">>), categories |-> PyList(<<PyStr(<<"k">>)>>),
     feed_url |-> PyStr(UrlRssSp), feed_copyright |-> PyStr(<<"(", "c", ")">>),
     feed_guid |-> PyStr(<<"g">>), ttl |-> PyStr(<<"6", "0">>),
     kwargs |-> [extra |-> PyStr(<<"x">>), id |-> PyStr(<<"k">>)]]

FeedArgs ==
    {FeedMinimal,
     FeedFull,
     [FeedMinimal EXCEPT !.ttl = PyInt(60)],
     [FeedMinimal EXCEPT !.feed_url = PyStr(UrlRss), !.language = PyStr(<<"e", "n">>)]}

Classes == {"RssUserland091Feed", "Rss201rev2Feed", "Atom1Feed"}

ItemMinimal ==
    [title |-> PyStr(<<"A">>), link |-> PyStr(UrlA), description |-> PyStr(<<"d">>),
     author_email |-> None, author_name |-> None, author_link |-> None,
     pubdate |-> None, comments |-> None, unique_id |-> None, enclosure |-> None,
     categories |-> PyList(<<>>), item_copyright |-> None, ttl |-> None,
     kwargs |-> NoKwargs]

ItemFull ==
    [title |-> PyStr(<<"B">>), link |-> PyStr(UrlB), description |-> None,
     author_email |-> PyStr(<<"e", "@", "x">>), author_name |-> PyStr(<<"N">>),
     author_link |-> PyStr(UrlU), pubdate |-> Naive1, comments |-> PyStr(UrlC),
     unique_id |-> PyStr(<<"i", "d", "1">>),
     enclosure |-> [t |-> "args", url |-> PyStr(UrlE), length |-> PyStr(<<"1", "2", "3">>),
                     mime_type |-> Lit("audio/mpeg")],
     categories |-> PyList(<<PyStr(<<"c", "1">>), PyStr(<<"c", "2">>)>>),
     item_copyright |-> PyStr(<<"(", "c", ")">>), ttl |-> PyStr(<<"5">>),
     kwargs |-> [extra |-> PyStr(<<"x">>)]]

ItemArgs ==
    {ItemMinimal,
     ItemFull,
     [ItemMinimal EXCEPT !.title = PyStr(<<"C">>),
                         !.author_email = PyStr(<<"e", "@", "x">>),
                         !.pubdate = Aware1],
     [ItemMinimal EXCEPT !.title = PyStr(<<"D">>), !.link = PyStr(UrlP),
                         !.author_name = PyStr(<<"N">>), !.pubdate = Aware3],
     [ItemMinimal EXCEPT !.title = PyStr(<<"E">>), !.author_email = PyStr(<<>>),
                         !.author_name = PyStr(<<"N">>), !.pubdate = Aware2],
     [ItemMinimal EXCEPT !.title = PyStr(<<"F">>), !.link = PyStr(UrlRel),
                         !.author_email = PyStr(<<"e", "@", "x">>),
                         !.author_name = PyStr(<<>>), !.pubdate = Naive2],
     [ItemMinimal EXCEPT !.title = PyStr(<<"G">>), !.author_email = PyStr(<<>>),
                         !.author_name = PyStr(<<>>)],
     [ItemMinimal EXCEPT !.title = PyStr(<<"H">>), !.ttl = PyInt(5)]}

-----------------------------------------------------------------------------
(* The feed object and its callers *)

Result(op, arg, exc, v, out, now, k) ==
    [op |-> op, arg |-> arg, exc |-> exc, v |-> v, out |-> out, now |-> now, k |-> k]

NoCall == Result("none", None, NoExc, None, <<>>, None, 0)

Init ==
    /\ variant = "none"
    /\ feed = None
    /\ items = <<>>
    /\ ctor = None
    /\ calls = <<>>
    /\ last = NoCall
    /\ fn = [op |-> "none", arg |-> None, arg2 |-> None, flag |-> FALSE,
             done |-> FALSE, ret |-> Ok(None)]

\* cls(**a): self.feed is set and self.items is empty, unless __init__ raised
Construct(cls, a) ==
    /\ variant = "none"
    /\ LET r == SyndicationFeed_init(a)
       IN  IF r.exc # NoExc
           THEN /\ last' = Result("__init__", a, r.exc, None, <<>>, None, 0)
                /\ UNCHANGED <<variant, feed, items, ctor, calls>>
           ELSE /\ variant' = cls
                /\ feed' = r.v
                /\ items' = <<>>
                /\ ctor' = a
                /\ last' = Result("__init__", a, NoExc, None, <<>>, None, 0)
                /\ UNCHANGED calls
    /\ UNCHANGED fn

\* feed.add_item(**a), the enclosure built by the caller with Enclosure(...)
AddItem(a) ==
    /\ variant # "none"
    /\ Len(items) < MaxItems
    /\ LET r == add_item(items, a)
       IN  IF r.exc # NoExc
           THEN /\ last' = Result("add_item", a, r.exc, None, <<>>, None, 0)
                /\ UNCHANGED <<items, calls>>
           ELSE /\ items' = r.v
                /\ calls' = Append(calls, a)
                /\ last' = Result("add_item", a, NoExc, None, <<>>, None, 0)
    /\ UNCHANGED <<variant, feed, ctor, fn>>

NumItems ==
    /\ variant # "none"
    /\ last' = Result("num_items", None, NoExc, PyInt(num_items(items)), <<>>, None, 0)
    /\ UNCHANGED <<variant, feed, items, ctor, calls, fn>>

LatestPostDate(now) ==
    /\ variant # "none"
    /\ LET r == latest_post_date(items, now)
       IN  last' = Result("latest_post_date", None, r.exc, r.v, <<>>, now, 0)
    /\ UNCHANGED <<variant, feed, items, ctor, calls, fn>>

\* feed.write(outfile, encoding): out is what the handler received
Write(now) ==
    /\ variant # "none"
    /\ LET h == write(variant, feed, items, now)
       IN  last' = Result("write", None, h.exc, None, h.ev, now, 0)
    /\ UNCHANGED <<variant, feed, items, ctor, calls, fn>>

\* feed.add_item_elements(handler, feed.items[k-1]) on a fresh handler
AddItemElements(k) ==
    /\ variant # "none"
    /\ k \in 1..Len(items)
    /\ LET h == Run(add_item_elements(variant, items[k]))
       IN  last' = Result("add_item_elements", None, h.exc, None, h.ev, None, k)
    /\ UNCHANGED <<variant, feed, items, ctor, calls, fn>>

Next ==
    \/ \E cls \in Classes, a \in FeedArgs : Construct(cls, a)
    \/ \E a \in ItemArgs : AddItem(a)
    \/ NumItems
    \/ \E now \in NowSet : LatestPostDate(now)
    \/ \E now \in NowSet : Write(now)
    \/ \E k \in 1..MaxItems : AddItemElements(k)

Spec == Init /\ [][Next]_vars

-----------------------------------------------------------------------------
(* The module-level functions, called on their own *)

\* line 141: a day has 24 * 60 minutes; tzinfo.utcoffset must lie strictly
\* between -24 h and +24 h, so these are all the whole-minute offsets
Offsets == (1 - 24 * 60)..(24 * 60 - 1)

AwareDates == {DateTime(2009, 1, 1, 12, 0, 0, TRUE, m) : m \in Offsets}

\* with two dates before the year 1000, one aware and one naive
FnDates == AwareDates \cup {Naive1, Naive2, Aware1, Aware3,
                            DateTime(999, 12, 31, 23, 59, 58, TRUE, 0 - 330),
                            DateTime(5, 1, 2, 0, 0, 0, FALSE, 0)}

FnTexts == {PyStr(<<>>), PyStr(<<"a", " ", "b">>), PyStr(<<"U+00E9">>),
            PyStr(UrlB), PyStr(UrlC), PyStr(UrlU), PyStr(UrlP), PyStr(UrlRel),
            PyStr(Http \o <<"e", "x", "a", "m", "p", "l", "e", ".", "c", "o", "m",
                            "/", "p", "a", "t", "h", "#", "f", "r", "a", "g">>),
            PyStr(<<" ">> \o Http \o <<"x", "/", "\t", "y">>),
            PyStr(Http \o <<"[", "x", "/", "p">>),
            PyStr(Http \o <<"[", ":", ":", "1", "]", ":", "8", "0", "/", "p">>)}

\* text, numbers, booleans, None and date/time values
FnValues == FnTexts \cup {None, PyInt(0), PyInt(5), PyInt(0 - 7), PyBool(TRUE),
                            PyBool(FALSE), PyFloat(2), PyDecimal(3),
                            Naive1, Aware1, Aware3}

FnCall(op, arg, arg2, flag) ==
    [op |-> op, arg |-> arg, arg2 |-> arg2, flag |-> flag,
     done |-> FALSE, ret |-> Ok(None)]

FnCalls ==
    {FnCall("force_unicode", s, None, b) : s \in FnValues, b \in BOOLEAN}
    \cup {FnCall("iri_to_uri", s, None, FALSE) :
              s \in FnValues \cup {[t |-> "bytes", s |-> <<"a", " ", "b">>],
                                   PyList(<<>>)}}
    \cup {FnCall("rfc2822_date", d, None, FALSE) : d \in FnDates}
    \cup {FnCall("rfc3339_date", d, None, FALSE) : d \in FnDates}
    \cup {FnCall("get_tag_uri", s, d, FALSE) :
              s \in FnTexts, d \in {None, Naive1, Aware3}}

InitFn ==
    /\ variant = "none"
    /\ feed = None
    /\ items = <<>>
    /\ ctor = None
    /\ calls = <<>>
    /\ last = NoCall
    /\ fn \in FnCalls

Returns(r) ==
    /\ ~fn.done
    /\ fn' = [fn EXCEPT !.done = TRUE, !.ret = r]
    /\ UNCHANGED <<variant, feed, items, ctor, calls, last>>

CallForceUnicode ==
    /\ fn.op = "force_unicode"
    /\ Returns(force_unicode(fn.arg, fn.flag))

CallIriToUri ==
    /\ fn.op = "iri_to_uri"
    /\ Returns(Ok(iri_to_uri(fn.arg)))

CallRfc2822Date ==
    /\ fn.op = "rfc2822_date"
    /\ Returns(rfc2822_date(fn.arg))

CallRfc3339Date ==
    /\ fn.op = "rfc3339_date"
    /\ Returns(rfc3339_date(fn.arg))

CallGetTagUri ==
    /\ fn.op = "get_tag_uri"
    /\ Returns(get_tag_uri(fn.arg, fn.arg2))

NextFn ==
    \/ CallForceUnicode
    \/ CallIriToUri
    \/ CallRfc2822Date
    \/ CallRfc3339Date
    \/ CallGetTagUri

SpecFn == InitFn /\ [][NextFn]_vars

-----------------------------------------------------------------------------
(* Reading a stream of handler events *)

\* positions of the start tags and of the end tags of the elements called name
StartsOf(ev, name) ==
    {i \in 1..Len(ev) : ev[i].e = "startElement" /\ ev[i].name = name}

EndsOf(ev, name) ==
    {i \in 1..Len(ev) : ev[i].e = "endElement" /\ ev[i].name = name}

\* the k-th smallest member of a finite set of integers
Nth(S, k) == CHOOSE x \in S : Cardinality({y \in S : y < x}) = k - 1

\* the text of the element whose start tag is at i ('' when it has none)
TextAt(ev, i) ==
    IF i < Len(ev) /\ ev[i + 1].e = "characters" THEN ev[i + 1].text ELSE <<>>

\* the texts of the elements called name
Texts(ev, name) == {TextAt(ev, i) : i \in StartsOf(ev, name)}

\* the events strictly inside the k-th element called tag
Block(ev, tag, k) ==
    SubSeq(ev, Nth(StartsOf(ev, tag), k) + 1, Nth(EndsOf(ev, tag), k) - 1)

\* the events before the first element called tag (all of them when none)
Before(ev, tag) ==
    IF StartsOf(ev, tag) = {} THEN ev
    ELSE SubSeq(ev, 1, Nth(StartsOf(ev, tag), 1) - 1)

\* The elements left open after the events, innermost last; ok is FALSE
\* when an end tag does not close the innermost open element.
RECURSIVE Nest(_, _)
Nest(ev, open) ==
    IF ev = <<>> THEN [ok |-> TRUE, open |-> open]
    ELSE IF Head(ev).e = "startElement"
    THEN Nest(Tail(ev), Append(open, Head(ev).name))
    ELSE IF Head(ev).e = "endElement"
    THEN IF open # <<>> /\ open[Len(open)] = Head(ev).name
         THEN Nest(Tail(ev), SubSeq(open, 1, Len(open) - 1))
         ELSE [ok |-> FALSE, open |-> open]
    ELSE Nest(Tail(ev), open)

\* the start tags that open an element at the top level
Roots(ev) ==
    {i \in 1..Len(ev) : /\ ev[i].e = "startElement"
                        /\ Nest(SubSeq(ev, 1, i - 1), <<>>).open = <<>>}

\* document start first and only once, one root, tags properly nested,
\* nothing left open
CompleteDocument(ev) ==
    /\ Len(ev) > 0
    /\ ev[1].e = "startDocument"
    /\ \A i \in 2..Len(ev) : ev[i].e # "startDocument"
    /\ Cardinality(Roots(ev)) = 1
    /\ Nest(ev, <<>>) = [ok |-> TRUE, open |-> <<>>]

EndsWith(s, suffix) ==
    /\ Len(s) >= Len(suffix)
    /\ SubSeq(s, Len(s) - Len(suffix) + 1, Len(s)) = suffix

\* the bijections of 1..n
Perms(n) == {p \in [1..n -> 1..n] : \A i, j \in 1..n : p[i] = p[j] => i = j}

Permuted(s, p) == [k \in 1..Len(s) |-> s[p[k]]]

-----------------------------------------------------------------------------
(* Properties *)

\* C1: every write of an RSS feed (0.91 or 2.0) completes without error and
\* emits one rss root with the variant's version attribute, one channel, the
\* feed-level title, link, description and lastBuildDate, then exactly one
\* item block per add_item call, the k-th carrying the k-th call's title and
\* link.
C1_RssWriteEmitsChannelAndItems ==
    (last.op = "write" /\ IsRss(variant)) =>
        /\ last.exc = NoExc
        /\ Cardinality(StartsOf(last.out, "rss")) = 1
        /\ \A i \in StartsOf(last.out, "rss") :
               \E j \in 1..Len(last.out[i].attrs) :
                   last.out[i].attrs[j] =
                       <<"version", Lit(IF variant = "RssUserland091Feed"
                                        THEN "0.91" ELSE "2.0")>>
        /\ Cardinality(StartsOf(last.out, "channel")) = 1
        /\ Texts(Before(last.out, "item"), "title") = {ctor.title.s}
        /\ Texts(Before(last.out, "item"), "link") = {iri_to_uri(ctor.link).s}
        /\ Texts(Before(last.out, "item"), "description") = {ctor.description.s}
        /\ Cardinality(StartsOf(Before(last.out, "item"), "lastBuildDate")) = 1
        /\ Cardinality(StartsOf(last.out, "item")) = Len(calls)
        /\ Cardinality(EndsOf(last.out, "item")) = Len(calls)
        /\ \A k \in 1..Len(calls) :
               /\ Texts(Block(last.out, "item", k), "title") = {calls[k].title.s}
               /\ Texts(Block(last.out, "item", k), "link")
                      = {iri_to_uri(calls[k].link).s}

\* C2: every write, of any of the three variants, returns and has emitted a
\* complete well-formed document: the document start first, exactly one root
\* element, every start tag closed by an end tag of the same name in
\* last-opened-first-closed order, and no element left open.
C2_WriteEmitsCompleteDocument ==
    last.op = "write" => (last.exc = NoExc /\ CompleteDocument(last.out))

\* C2, the part that holds: whenever write of an Atom feed returns, what it
\* emitted is a complete well-formed document with feed as its root.
C2_AtomDocumentWhenWriteReturns ==
    (last.op = "write" /\ variant = "Atom1Feed" /\ last.exc = NoExc) =>
        /\ CompleteDocument(last.out)
        /\ \A i \in Roots(last.out) : last.out[i].name = "feed"

C2_AtomWitness ==
    /\ last.op = "write"
    /\ variant = "Atom1Feed"
    /\ last.exc = NoExc
    /\ Len(items) = MaxItems

\* the id an Atom entry must carry for an add_item call with arguments a
ExpectedId(a) ==
    IF ~IsNone(a.unique_id) THEN a.unique_id.s
    ELSE get_tag_uri(iri_to_uri(a.link), a.pubdate).v.s

\* the events ev of one entry carry exactly one id, the expected one; a
\* generated id starts with tag: and has the date segment (after the only
\* comma, the links of the model having none, up to the next colon) exactly
\* when the item has a pubdate
EntryIdIs(ev, a) ==
    /\ Cardinality(StartsOf(ev, "id")) = 1
    /\ Texts(ev, "id") = {ExpectedId(a)}
    /\ IsNone(a.unique_id) =>
           \A t \in Texts(ev, "id") :
               /\ SubSeq(t, 1, 4) = <<"t", "a", "g", ":">>
               /\ ("," \in Range(t)) <=> ~IsNone(a.pubdate)
               /\ ~IsNone(a.pubdate) =>
                      Slice(t, Find(t, ",", 0) + 1, Find(t, ":", Find(t, ",", 0)))
                          = StrfDate(a.pubdate)

\* C3: in the Atom variant every entry emits exactly one id element, whose
\* text is the unique_id given to add_item when one was given and otherwise
\* get_tag_uri(item link, item pubdate), with the date segment present
\* exactly when the item has a pubdate; a write that returns has emitted one
\* entry per item.
C3_AtomEntryId ==
    variant = "Atom1Feed" =>
        /\ (last.op = "add_item_elements" /\ last.exc = NoExc) =>
               EntryIdIs(last.out, calls[last.k])
        /\ (last.op = "write" /\ last.exc = NoExc) =>
               /\ Cardinality(StartsOf(last.out, "entry")) = Len(calls)
               /\ Cardinality(EndsOf(last.out, "entry")) = Len(calls)
               /\ \A k \in 1..Len(calls) :
                      EntryIdIs(Block(last.out, "entry", k), calls[k])

\* a write that returned two entries: one with a supplied unique_id, one
\* with a pubdate and a generated id
C3_Witness ==
    /\ variant = "Atom1Feed"
    /\ last.op = "write"
    /\ last.exc = NoExc
    /\ \E i, j \in 1..Len(calls) :
           /\ ~IsNone(calls[i].unique_id)
           /\ IsNone(calls[j].unique_id)
           /\ ~IsNone(calls[j].pubdate)
           /\ Texts(Block(last.out, "entry", j), "id") =
                  {get_tag_uri(iri_to_uri(calls[j].link), calls[j].pubdate).v.s}

\* the pubdates given to the add_item calls made so far
PubDates == {calls[k].pubdate : k \in 1..Len(calls)} \ {None}

\* v is one of the dates ds and none of them is later
IsLatest(v, ds) == v \in ds /\ \A u \in ds : ~DtLess(v, u)

\* C4 as stated: latest_post_date() returns the maximum pubdate among the
\* items that have one, the same value for every permutation of the
\* insertion order, and the current time only when no item has a pubdate.
C4_LatestIsMaxForEveryOrder ==
    last.op = "latest_post_date" =>
        /\ last.exc = NoExc
        /\ IF PubDates = {} THEN last.v = last.now
           ELSE IsLatest(last.v, PubDates)
        /\ \A p \in Perms(Len(items)) :
               latest_post_date(Permuted(items, p), last.now) = Ok(last.v)

\* C4 amended: when the pubdates are all naive or all aware,
\* latest_post_date() returns one of them that none exceeds, and for every
\* permutation of the insertion order it returns a date equal to it (the
\* same instant); it returns the current time only when no item has a
\* pubdate.
C4_LatestIsMaxWhenComparable ==
    (last.op = "latest_post_date"
     /\ \A a, b \in PubDates : DtComparable(a, b)) =>
        /\ last.exc = NoExc
        /\ IF PubDates = {} THEN last.v = last.now
           ELSE IsLatest(last.v, PubDates)
        /\ \A p \in Perms(Len(items)) :
               /\ latest_post_date(Permuted(items, p), last.now).exc = NoExc
               /\ IF PubDates = {}
                  THEN latest_post_date(Permuted(items, p), last.now).v = last.now
                  ELSE DtEq(latest_post_date(Permuted(items, p), last.now).v,
                            last.v)

\* two different pubdates, the later one not on the item added last
C4_Witness ==
    /\ last.op = "latest_post_date"
    /\ last.exc = NoExc
    /\ Len(items) >= 2
    /\ Cardinality(PubDates) >= 2
    /\ ~IsNone(items[Len(items)].pubdate)
    /\ DtLess(items[Len(items)].pubdate, last.v)

Abs(n) == IF n < 0 THEN 0 - n ELSE n

\* sign, 2-digit hours, sep, 2-digit minutes of an offset of m minutes
ZoneText(m, sep) ==
    (IF m < 0 THEN <<"-">> ELSE <<"+">>)
    \o FmtD(Abs(m) \div 60, 2) \o sep \o FmtD(Abs(m) % 60, 2)

\* C5: for an aware timestamp with a UTC offset of m whole minutes,
\* -1440 < m < 1440, rfc2822_date ends with the signed 4-digit zone whose
\* value is m and rfc3339_date with the same sign, hours and minutes
\* separated by a colon, negative offsets that are not whole hours included.
C5_ZoneEqualsOffset ==
    (fn.done /\ fn.op \in {"rfc2822_date", "rfc3339_date"}) =>
        (fn.arg.aware =>
            EndsWith(fn.ret.v.s,
                     ZoneText(fn.arg.off,
                              IF fn.op = "rfc2822_date" THEN <<>> ELSE <<":">>)))

NaiveZone(op) ==
    IF op = "rfc2822_date" THEN <<"-", "0", "0", "0", "0">> ELSE <<"Z">>

UtcZone(op) ==
    IF op = "rfc2822_date" THEN <<"+", "0", "0", "0", "0">>
    ELSE <<"+", "0", "0", ":", "0", "0">>

\* C6: a naive timestamp always yields '-0000' (rfc2822_date) or 'Z'
\* (rfc3339_date); an aware one never yields those literals, and an aware
\* one at offset zero yields '+0000' / '+00:00'.
C6_ZoneByAwareness ==
    (fn.done /\ fn.op \in {"rfc2822_date", "rfc3339_date"}) =>
        /\ ~fn.arg.aware => EndsWith(fn.ret.v.s, NaiveZone(fn.op))
        /\ fn.arg.aware => ~EndsWith(fn.ret.v.s, NaiveZone(fn.op))
        /\ (fn.arg.aware /\ fn.arg.off = 0) =>
               EndsWith(fn.ret.v.s, UtcZone(fn.op))

\* rfc3339_date of an aware timestamp at offset zero has returned
C6_Witness ==
    /\ fn.done
    /\ fn.op = "rfc3339_date"
    /\ fn.arg.aware
    /\ fn.arg.off = 0
    /\ EndsWith(fn.ret.v.s, <<"+", "0", "0", ":", "0", "0">>)

\* C7: every URI-valued field the feed holds is iri_to_uri of the caller's
\* value: the feed's link, author link and feed_url, and each item's link,
\* author link, comments URI and enclosure URL.
C7_UriFieldsStoredEncoded ==
    variant # "none" =>
        /\ feed.link = iri_to_uri(ctor.link)
        /\ feed.author_link = iri_to_uri(ctor.author_link)
        /\ feed.feed_url = iri_to_uri(ctor.feed_url)
        /\ \A k \in 1..Len(items) :
               /\ items[k].link = iri_to_uri(calls[k].link)
               /\ items[k].author_link = iri_to_uri(calls[k].author_link)
               /\ items[k].comments = iri_to_uri(calls[k].comments)
               /\ IsNone(items[k].enclosure) = IsNone(calls[k].enclosure)
               /\ ~IsNone(calls[k].enclosure) =>
                      items[k].enclosure.url = iri_to_uri(calls[k].enclosure.url)

\* the item sequence is the add_item calls made so far, in call order, and
\* num_items() is their number
ItemsAreCalls ==
    /\ Len(items) = Len(calls)
    /\ \A k \in 1..Len(items) :
           /\ items[k].title = calls[k].title
           /\ items[k].link = iri_to_uri(calls[k].link)
           /\ items[k].description = calls[k].description
           /\ items[k].pubdate = calls[k].pubdate
    /\ last.op = "num_items" => last.v = PyInt(Len(calls))

\* what one operation on a constructed feed may change
FrameOfStep ==
    variant # "none" =>
        /\ variant' = variant
        /\ feed' = feed
        /\ Len(items') >= Len(items)
        /\ SubSeq(items', 1, Len(items)) = items
        /\ last'.op \in {"num_items", "latest_post_date", "write",
                         "add_item_elements"} => items' = items
        /\ last'.op = "add_item" =>
               Len(items') = Len(items) + (IF last'.exc = NoExc THEN 1 ELSE 0)

\* C8: the item store is append-only: the item sequence is always the items
\* of the add_item calls made so far in call order and num_items() their
\* number; an add_item leaves the earlier items and the feed metadata as
\* they were; num_items, latest_post_date and write change neither the
\* items nor the metadata.
C8_AppendOnly == [](ItemsAreCalls) /\ [][FrameOfStep]_vars

\* two different items were added and the feed was then written
C8_Witness ==
    /\ Len(items) = 2
    /\ items[1].title # items[2].title
    /\ calls[1].title = items[1].title
    /\ last.op = "write"

\* C9: force_unicode returns without raising for every text, number,
\* date/time, boolean or None input, flag set or unset; with the flag set
\* None, integers (booleans among them), date/time values, floats and
\* decimals come back unchanged, and in every other case text comes back.
C9_ForceUnicodeTotal ==
    (fn.done /\ fn.op = "force_unicode") =>
        /\ fn.ret.exc = NoExc
        /\ IF fn.flag /\ fn.arg.t \in {"none", "int", "bool", "datetime",
                                       "float", "Decimal"}
           THEN fn.ret.v = fn.arg
           ELSE IsStr(fn.ret.v)

\* C9, its consequence for the feed: constructing a feed or adding an item
\* with the inputs of the model (an integer ttl among them) succeeds.
C9_IntegerTtlAccepted ==
    last.op \in {"__init__", "add_item"} => last.exc = NoExc

\* the author-bearing elements among the events ev, for an item whose
\* author email is e and author name is n
AuthorElementIs(ev, e, n) ==
    /\ Cardinality(StartsOf(ev, "author")) + Cardinality(StartsOf(ev, "dc:creator")) <= 1
    /\ (Truthy(e) /\ Truthy(n)) =>
           /\ Texts(ev, "author") = {e.s \o <<" ", "(">> \o n.s \o <<")">>}
           /\ StartsOf(ev, "dc:creator") = {}
    /\ (Truthy(e) /\ ~Truthy(n)) =>
           /\ Texts(ev, "author") = {e.s}
           /\ StartsOf(ev, "dc:creator") = {}
    /\ (~Truthy(e) /\ Truthy(n)) =>
           /\ StartsOf(ev, "author") = {}
           /\ Texts(ev, "dc:creator") = {n.s}
           /\ \A i \in StartsOf(ev, "dc:creator") :
                  ev[i].attrs =
                      << <<"xmlns:dc", Lit("http://purl.org/dc/elements/1.1/")>> >>
    /\ (~Truthy(e) /\ ~Truthy(n)) =>
           /\ StartsOf(ev, "author") = {}
           /\ StartsOf(ev, "dc:creator") = {}

\* C10: in the RSS 2.0 variant the elements of an item hold at most one
\* author-bearing element: author with 'email (name)' when email and name
\* are both present (given and not empty), author with the email when only
\* the email is, dc:creator with the name and the dc namespace declared on
\* it when only the name is, and neither element when neither is.
C10_Rss2AuthorElement ==
    (variant = "Rss201rev2Feed" /\ last.op = "add_item_elements") =>
        AuthorElementIs(last.out, calls[last.k].author_email,
                        calls[last.k].author_name)

\* the elements of an item with both email and name were emitted
C10_Witness ==
    /\ variant = "Rss201rev2Feed"
    /\ last.op = "add_item_elements"
    /\ Truthy(calls[last.k].author_email)
    /\ Truthy(calls[last.k].author_name)
    /\ StartsOf(last.out, "author") # {}

\* the names of the elements opened among the events ev, in order
RECURSIVE ElementNames(_)
ElementNames(ev) ==
    IF ev = <<>> THEN <<>>
    ELSE (IF Head(ev).e = "startElement" THEN <<Head(ev).name>> ELSE <<>>)
         \o ElementNames(Tail(ev))

\* what RSS 0.91 may put in an item block for an add_item call with
\* arguments a: title, link and, when given, description, with their texts
Rss091ItemIs(ev, a) ==
    /\ ElementNames(ev) =
           <<"title", "link">>
           \o (IF ~IsNone(a.description) THEN <<"description">> ELSE <<>>)
    /\ Texts(ev, "title") = {a.title.s}
    /\ Texts(ev, "link") = {iri_to_uri(a.link).s}
    /\ ~IsNone(a.description) => Texts(ev, "description") = {a.description.s}
    /\ \A n \in {"author", "dc:creator", "pubDate", "comments", "guid", "ttl",
                 "enclosure", "category"} : StartsOf(ev, n) = {}

\* C11: in the RSS 0.91 variant the elements of an item are only title,
\* link and (when description is not None) description, whatever optional
\* fields the item has: never author, pubDate, guid, ttl, enclosure or
\* category; and no write output holds such an element inside an item block.
C11_Rss091ItemElements ==
    variant = "RssUserland091Feed" =>
        /\ last.op = "add_item_elements" =>
               (last.exc = NoExc /\ Rss091ItemIs(last.out, calls[last.k]))
        /\ last.op = "write" =>
               \A i \in StartsOf(last.out, "item") :
                   \A j \in (i + 1)..Len(last.out) :
                       last.out[j].e = "startElement" =>
                           last.out[j].name \in {"item", "title", "link",
                                                 "description"}

\* the elements of an item with author, pubdate, comments, unique_id, ttl,
\* enclosure and categories were emitted
C11_Witness ==
    /\ variant = "RssUserland091Feed"
    /\ last.op = "add_item_elements"
    /\ ~IsNone(calls[last.k].author_email)
    /\ ~IsNone(calls[last.k].author_name)
    /\ ~IsNone(calls[last.k].pubdate)
    /\ ~IsNone(calls[last.k].comments)
    /\ ~IsNone(calls[last.k].unique_id)
    /\ ~IsNone(calls[last.k].ttl)
    /\ ~IsNone(calls[last.k].enclosure)
    /\ calls[last.k].categories.xs # <<>>
    /\ ElementNames(last.out) = <<"title", "link">>

=============================================================================
